---- MODULE Spec2Model ----
(***************************************************************************)
(* Model of streamlit_app.py (RestaurantBot).                              *)
(*                                                                         *)
(* One server process hosts several browser sessions.  Every event of a    *)
(* session (first load, rerun, chat submission) executes the script from   *)
(* its first line to its last; a run ends early at st.stop() or at an      *)
(* uncaught exception.  st.session_state survives between the runs of one  *)
(* session; Settings, the st.cache_resource cache of load_index and the    *)
(* file system are shared by all sessions of the process.                  *)
(*                                                                         *)
(* The platform runs the script of one session one run at a time and lets  *)
(* a run reach its end, st.stop() or an exception; runs of different       *)
(* sessions interleave statement by statement.  st.cache_resource is       *)
(* modelled as the library implements it: a cache read, and on a miss a    *)
(* lock, a second cache read and the call of the body, whose return value  *)
(* (never its exception) is stored.                                        *)
(***************************************************************************)
EXTENDS Integers, Sequences, FiniteSets, TLC

\* ------------------------------------------------------------------ bounds
\* Script runs started in the process, all sessions together.
MaxRuns == 4

Sessions == {"s1", "s2"}
Queries == {"q1", "q2"}
Responses == {"r1", "r2"}
NoQuery == ""
\* Rows of ./menu_data.csv and files of ./reviews the file system may hold.
MenuRowChoices == {1, 2}
ReviewFileChoices == {1}

\* ------------------------------------------------------------------ state
VARIABLES
    secrets,        \* st.secrets: the set of secret names configured
    storage,        \* ./storage: [state: absent | valid | corrupt, ndocs]
    files,          \* [menuRows, reviewFiles]: ./menu_data.csv and ./reviews
    Settings,       \* llama_index Settings: [llm, embed_model] installed or not
    cache,          \* st.cache_resource entry of load_index (NoIndex when empty)
    lock,           \* session computing the cache entry, or NoSession
    nextId,         \* identity of the next index or chat-engine object created
    runs,           \* script runs started so far
    stats,          \* process counters: body executions, reads, builds, ...
    pc,             \* per session: position of the current script run
    keys,           \* per session: keys present in st.session_state
    chat_engine,    \* per session: st.session_state.chat_engine
    messages,       \* per session: st.session_state.messages
    user_query,     \* per session: chat_input value of the current run
    response,       \* per session: response text of the current run
    index,          \* per session: module-level name `index` of the current run
    run,            \* per session: what the current run has done so far
    hist            \* per session: history of the session (engines, turns)

vars == <<secrets, storage, files, Settings, cache, lock, nextId, runs, stats,
          pc, keys, chat_engine, messages, user_query, response, index, run, hist>>

procVars == <<secrets, storage, files, Settings, cache, lock, nextId, stats>>

NoSession == "none"
NoIndex == [id |-> 0, origin |-> "none", ndocs |-> 0]
NoEngine == [id |-> 0, index |-> 0, mode |-> "none"]

\* Positions at which no run is executing: before the first run, after the
\* last line, after st.stop(), after an uncaught exception.
Terminal == {"idle", "done", "halted", "crashed"}

\* Names bound at module level when load_index executes (lines 1-10 and the
\* definitions of the script itself).
ModuleNames ==
    {"st", "os", "sys", "StorageContext", "load_index_from_storage", "Settings",
     "GoogleGenAI", "GoogleGenAIEmbedding", "google_api_key", "SYSTEM_PROMPT",
     "load_index"}

KEY_ERROR == "API Key not found. Please add it to your Streamlit Secrets."
SETUP_ERROR == "Error setting up Google AI. Check your API key. Details: "
SEED == [role |-> "assistant",
         content |-> "Hi! I'm RestaurantBot. Ask me anything about the menu."]

NewRun ==
    [errors |-> <<>>,        \* st.error displays of the run, in order
     caught |-> "none",      \* exception handled by the except of line 38
     exc |-> "none",         \* uncaught exception that ended the run
     llm |-> FALSE,          \* GoogleGenAI(...) returned a client
     embed |-> FALSE,        \* GoogleGenAIEmbedding(...) returned a client
     ctorCalls |-> 0,        \* client constructors invoked
     loadCalls |-> 0,        \* calls of load_index()
     bodyExecs |-> 0,        \* executions of the body of load_index
     branch |-> "none",      \* branch the body took: rebuild | load
     engines |-> 0,          \* chat engines created
     chatCalls |-> 0,        \* calls of chat_engine.chat
     netCalls |-> 0,         \* embedding and generation requests sent
     inputShown |-> FALSE,   \* line 117 displayed the chat input
     shown |-> 0,            \* messages rendered by the loop of line 112
     trace |-> <<>>]         \* steps of the submission handler, in order

NewHist == [engines |-> <<>>, chatOn |-> <<>>, turns |-> <<>>]

Init ==
    /\ secrets \in {{}, {"GOOGLE_API_KEY"}}
    /\ storage \in {[state |-> "absent", ndocs |-> 0],
                    [state |-> "corrupt", ndocs |-> 0]}
                   \cup {[state |-> "valid", ndocs |-> m + r] :
                            m \in MenuRowChoices, r \in ReviewFileChoices}
    /\ files \in [menuRows : MenuRowChoices, reviewFiles : ReviewFileChoices]
    /\ Settings = [llm |-> FALSE, embed_model |-> FALSE]
    /\ cache = NoIndex
    /\ lock = NoSession
    /\ nextId = 1
    /\ runs = 0
    /\ stats = [bodyExecs |-> 0, bodyReturns |-> 0, menuReads |-> 0,
                reviewReads |-> 0, builds |-> 0, persists |-> 0, loads |-> 0]
    /\ pc = [s \in Sessions |-> "idle"]
    /\ keys = [s \in Sessions |-> {}]
    /\ chat_engine = [s \in Sessions |-> NoEngine]
    /\ messages = [s \in Sessions |-> <<>>]
    /\ user_query = [s \in Sessions |-> NoQuery]
    /\ response = [s \in Sessions |-> ""]
    /\ index = [s \in Sessions |-> NoIndex]
    /\ run = [s \in Sessions |-> NewRun]
    /\ hist = [s \in Sessions |-> NewHist]

\* ----------------------------------------------------------- script runs
\* The platform starts a run of the script for session s.  q is the value the
\* chat input widget will return in this run: a submission is possible only
\* when the previous run of the session displayed the widget (line 117).
StartRun(s, q) ==
    /\ pc[s] \in Terminal
    /\ runs < MaxRuns
    /\ q # NoQuery => run[s].inputShown
    /\ runs' = runs + 1
    /\ pc' = [pc EXCEPT ![s] = "key"]
    /\ user_query' = [user_query EXCEPT ![s] = q]
    /\ response' = [response EXCEPT ![s] = ""]
    /\ index' = [index EXCEPT ![s] = NoIndex]
    /\ run' = [run EXCEPT ![s] = NewRun]
    /\ UNCHANGED <<procVars, keys, chat_engine, messages, hist>>

\* Variant of CheckKey without the st.stop() of line 26: the error is
\* displayed and the script goes on.
CheckKey_NoStop(s) ==
    /\ pc[s] = "key"
    /\ IF "GOOGLE_API_KEY" \in secrets
       THEN run' = run
       ELSE run' = [run EXCEPT ![s].errors = Append(@, KEY_ERROR)]
    /\ pc' = [pc EXCEPT ![s] = "clients"]
    /\ UNCHANGED <<procVars, runs, keys, chat_engine, messages, user_query,
                   response, index, hist>>

\* Lines 22-26: the credential lookup.
CheckKey(s) ==
    /\ pc[s] = "key"
    /\ IF "GOOGLE_API_KEY" \in secrets
       THEN /\ pc' = [pc EXCEPT ![s] = "clients"]
            /\ run' = run
       ELSE /\ run' = [run EXCEPT ![s].errors = Append(@, KEY_ERROR)]
            /\ pc' = [pc EXCEPT ![s] = "halted"]
    /\ UNCHANGED <<procVars, runs, keys, chat_engine, messages, user_query,
                   response, index, hist>>

\* Lines 29-40: the two client constructors; either may raise e.
ClientErrors == {"bad key", "no network"}

\* Variant of ConfigureClients without the st.stop() of line 40.
ConfigureClients_NoStop(s) ==
    /\ pc[s] = "clients"
    /\ \/ /\ Settings' = [llm |-> TRUE, embed_model |-> TRUE]
          /\ run' = [run EXCEPT ![s].llm = TRUE, ![s].embed = TRUE,
                                ![s].ctorCalls = 2]
       \/ \E e \in ClientErrors :
          /\ Settings' = Settings
          /\ run' = [run EXCEPT ![s].ctorCalls = 1, ![s].caught = e,
                                ![s].errors = Append(@, SETUP_ERROR \o e)]
    /\ pc' = [pc EXCEPT ![s] = "load"]
    /\ UNCHANGED <<secrets, storage, files, cache, lock, nextId, stats, runs,
                   keys, chat_engine, messages, user_query, response, index, hist>>

ConfigureClients(s) ==
    /\ pc[s] = "clients"
    /\ \/ /\ Settings' = [llm |-> TRUE, embed_model |-> TRUE]
          /\ run' = [run EXCEPT ![s].llm = TRUE, ![s].embed = TRUE,
                                ![s].ctorCalls = 2]
          /\ pc' = [pc EXCEPT ![s] = "load"]
       \/ \E e \in ClientErrors :
          \* GoogleGenAI(...) raises e: line 34 is skipped
          /\ Settings' = Settings
          /\ run' = [run EXCEPT ![s].ctorCalls = 1, ![s].caught = e,
                                ![s].errors = Append(@, SETUP_ERROR \o e)]
          /\ pc' = [pc EXCEPT ![s] = "halted"]
       \/ \E e \in ClientErrors :
          \* GoogleGenAIEmbedding(...) raises e: Settings.llm is already set
          /\ Settings' = [Settings EXCEPT !.llm = TRUE]
          /\ run' = [run EXCEPT ![s].llm = TRUE, ![s].ctorCalls = 2,
                                ![s].caught = e,
                                ![s].errors = Append(@, SETUP_ERROR \o e)]
          /\ pc' = [pc EXCEPT ![s] = "halted"]
    /\ UNCHANGED <<secrets, storage, files, cache, lock, nextId, stats, runs,
                   keys, chat_engine, messages, user_query, response, index, hist>>

\* -------------------------------------------------------------- load_index
\* Lines 66-85, the rebuild branch of load_index, from the names the module
\* binds: a name that is not bound raises NameError where it is first used.
\* The result says how far the branch got and what it did on the way.
Rebuild(fs, id) ==
    IF "SimpleDirectoryReader" \notin ModuleNames
    THEN [raised |-> "NameError", index |-> NoIndex, menuReads |-> 0,
          reviewReads |-> 0, builds |-> 0, persists |-> 0, loads |-> 0,
          storage |-> [state |-> "absent", ndocs |-> 0]]
    ELSE IF "VectorStoreIndex" \notin ModuleNames
    THEN [raised |-> "NameError", index |-> NoIndex, menuReads |-> 1,
          reviewReads |-> 1, builds |-> 0, persists |-> 0, loads |-> 0,
          storage |-> [state |-> "absent", ndocs |-> 0]]
    ELSE LET documents == fs.menuRows + fs.reviewFiles
         IN  [raised |-> "none",
              index |-> [id |-> id, origin |-> "built", ndocs |-> documents],
              menuReads |-> 1, reviewReads |-> 1, builds |-> 1, persists |-> 1,
              loads |-> 0,
              storage |-> [state |-> "valid", ndocs |-> documents]]

\* Lines 87-88, the load branch: deserialize the persisted index.  A
\* directory that does not hold a readable index makes the library raise.
LoadFromStorage(st, id) ==
    IF st.state = "valid"
    THEN [raised |-> "none",
          index |-> [id |-> id, origin |-> "loaded", ndocs |-> st.ndocs],
          menuReads |-> 0, reviewReads |-> 0, builds |-> 0, persists |-> 0,
          loads |-> 1, storage |-> st]
    ELSE [raised |-> "LoadError", index |-> NoIndex, menuReads |-> 0,
          reviewReads |-> 0, builds |-> 0, persists |-> 0, loads |-> 1,
          storage |-> st]

\* Variant of PathExists with the test of line 65 inverted.
PathExists_Inverted(st) == st.state = "absent"

\* Line 65: os.path.exists(PERSIST_DIR).
PathExists(st) == st.state # "absent"

\* Lines 63-90: the body of load_index.
load_index(st, fs, id) ==
    IF ~PathExists(st) THEN Rebuild(fs, id) ELSE LoadFromStorage(st, id)

\* Lines 93-94: `if index is None: st.stop()`.
AfterLoad(idx) == IF idx = NoIndex THEN "halted" ELSE "engine"

\* Line 92 through the decorator of line 62: a cache hit returns the cached
\* instance; a miss goes on to take the lock that guards the computation.
LoadIndexCall(s) ==
    /\ pc[s] = "load"
    /\ run' = [run EXCEPT ![s].loadCalls = @ + 1]
    /\ IF cache # NoIndex
       THEN /\ index' = [index EXCEPT ![s] = cache]
            /\ pc' = [pc EXCEPT ![s] = AfterLoad(cache)]
       ELSE /\ index' = index
            /\ pc' = [pc EXCEPT ![s] = "miss"]
    /\ UNCHANGED <<procVars, runs, keys, chat_engine, messages, user_query,
                   response, hist>>

\* Variant of LoadIndexMiss that computes as soon as it holds the lock,
\* without reading the cache again.
LoadIndexMiss_NoRecheck(s) ==
    /\ pc[s] = "miss"
    /\ lock = NoSession
    /\ pc' = [pc EXCEPT ![s] = "body"]
    /\ lock' = s
    /\ UNCHANGED <<secrets, storage, files, Settings, cache, nextId, stats, runs,
                   keys, chat_engine, messages, user_query, response, index,
                   run, hist>>

\* Line 62: the cache miss.  The lock is taken, then the cache is read again:
\* another session may have filled it while this one waited.
LoadIndexMiss(s) ==
    /\ pc[s] = "miss"
    /\ lock = NoSession
    /\ IF cache # NoIndex
       THEN /\ index' = [index EXCEPT ![s] = cache]
            /\ pc' = [pc EXCEPT ![s] = AfterLoad(cache)]
            /\ lock' = lock
       ELSE /\ index' = index
            /\ pc' = [pc EXCEPT ![s] = "body"]
            /\ lock' = s
    /\ UNCHANGED <<secrets, storage, files, Settings, cache, nextId, stats, runs,
                   keys, chat_engine, messages, user_query, response, run, hist>>

\* Lines 63-90 under the lock: the body runs; a returned index is cached, an
\* exception is not and ends the run (line 92 has no handler).
LoadIndexBody(s) ==
    /\ pc[s] = "body"
    /\ LET out == load_index(storage, files, nextId)
           taken == IF PathExists(storage) THEN "load" ELSE "rebuild"
       IN  /\ storage' = out.storage
           /\ stats' = [bodyExecs |-> stats.bodyExecs + 1,
                        bodyReturns |-> stats.bodyReturns
                                          + (IF out.raised = "none" THEN 1 ELSE 0),
                        menuReads |-> stats.menuReads + out.menuReads,
                        reviewReads |-> stats.reviewReads + out.reviewReads,
                        builds |-> stats.builds + out.builds,
                        persists |-> stats.persists + out.persists,
                        loads |-> stats.loads + out.loads]
           /\ lock' = NoSession
           /\ IF out.raised = "none"
              THEN /\ cache' = out.index
                   /\ nextId' = nextId + 1
                   /\ index' = [index EXCEPT ![s] = out.index]
                   /\ pc' = [pc EXCEPT ![s] = AfterLoad(out.index)]
                   /\ run' = [run EXCEPT ![s].bodyExecs = @ + 1,
                                         ![s].branch = taken,
                                         ![s].netCalls = @ + out.builds]
              ELSE /\ cache' = cache
                   /\ nextId' = nextId
                   /\ index' = index
                   /\ pc' = [pc EXCEPT ![s] = "crashed"]
                   /\ run' = [run EXCEPT ![s].bodyExecs = @ + 1,
                                         ![s].branch = taken,
                                         ![s].exc = out.raised]
    /\ UNCHANGED <<secrets, files, Settings, runs, keys, chat_engine, messages,
                   user_query, response, hist>>

\* ------------------------------------------------------------ chat engine
\* Lines 98-101: index.as_chat_engine(chat_mode="context", ...).
as_chat_engine(idx, id) == [id |-> id, index |-> idx.id, mode |-> "context"]

\* Variant of InitChatEngine without the test of line 97: every run creates
\* an engine.
InitChatEngine_Always(s) ==
    /\ pc[s] = "engine"
    /\ chat_engine' = [chat_engine EXCEPT ![s] = as_chat_engine(index[s], nextId)]
    /\ keys' = [keys EXCEPT ![s] = @ \cup {"chat_engine"}]
    /\ nextId' = nextId + 1
    /\ run' = [run EXCEPT ![s].engines = @ + 1]
    /\ hist' = [hist EXCEPT ![s].engines = Append(@, nextId)]
    /\ pc' = [pc EXCEPT ![s] = "seed"]
    /\ UNCHANGED <<secrets, storage, files, Settings, cache, lock, stats, runs,
                   messages, user_query, response, index>>

\* Lines 97-101: the engine is created when the session has none.
InitChatEngine(s) ==
    /\ pc[s] = "engine"
    /\ IF "chat_engine" \notin keys[s]
       THEN /\ chat_engine' = [chat_engine EXCEPT ![s] = as_chat_engine(index[s], nextId)]
            /\ keys' = [keys EXCEPT ![s] = @ \cup {"chat_engine"}]
            /\ nextId' = nextId + 1
            /\ run' = [run EXCEPT ![s].engines = @ + 1]
            /\ hist' = [hist EXCEPT ![s].engines = Append(@, nextId)]
       ELSE UNCHANGED <<chat_engine, keys, nextId, run, hist>>
    /\ pc' = [pc EXCEPT ![s] = "seed"]
    /\ UNCHANGED <<secrets, storage, files, Settings, cache, lock, stats, runs,
                   messages, user_query, response, index>>

\* ------------------------------------------------------------ chat history
\* Variant of SeedMessages without the test of line 107: every run resets
\* the list to the greeting.
SeedMessages_Always(s) ==
    /\ pc[s] = "seed"
    /\ messages' = [messages EXCEPT ![s] = <<SEED>>]
    /\ keys' = [keys EXCEPT ![s] = @ \cup {"messages"}]
    /\ pc' = [pc EXCEPT ![s] = "history"]
    /\ UNCHANGED <<procVars, runs, chat_engine, user_query, response, index,
                   run, hist>>

\* Lines 107-110: the message list is created, with the greeting, when the
\* session has none.
SeedMessages(s) ==
    /\ pc[s] = "seed"
    /\ IF "messages" \notin keys[s]
       THEN /\ messages' = [messages EXCEPT ![s] = <<SEED>>]
            /\ keys' = [keys EXCEPT ![s] = @ \cup {"messages"}]
       ELSE UNCHANGED <<messages, keys>>
    /\ pc' = [pc EXCEPT ![s] = "history"]
    /\ UNCHANGED <<procVars, runs, chat_engine, user_query, response, index,
                   run, hist>>

\* Lines 112-114: every message of the list is rendered, in order.
RenderHistory(s) ==
    /\ pc[s] = "history"
    /\ run' = [run EXCEPT ![s].shown = Len(messages[s])]
    /\ pc' = [pc EXCEPT ![s] = "input"]
    /\ UNCHANGED <<procVars, runs, keys, chat_engine, messages, user_query,
                   response, index, hist>>

\* Line 117: the chat input is displayed; it returns the submitted text, or
\* nothing when this run was not started by a submission.
ChatInput(s) ==
    /\ pc[s] = "input"
    /\ IF user_query[s] # NoQuery
       THEN /\ pc' = [pc EXCEPT ![s] = "append_user"]
            /\ run' = [run EXCEPT ![s].inputShown = TRUE]
            /\ hist' = [hist EXCEPT ![s].turns =
                          Append(@, [q |-> user_query[s], outcome |-> "open", r |-> ""])]
       ELSE /\ pc' = [pc EXCEPT ![s] = "done"]
            /\ run' = [run EXCEPT ![s].inputShown = TRUE]
            /\ hist' = hist
    /\ UNCHANGED <<procVars, runs, keys, chat_engine, messages, user_query,
                   response, index>>

Event(ev, text) == [ev |-> ev, text |-> text]

SetLast(seq, x) == [seq EXCEPT ![Len(seq)] = x]

\* Line 118.
AppendUser(s) ==
    /\ pc[s] = "append_user"
    /\ messages' = [messages EXCEPT ![s] =
                      Append(@, [role |-> "user", content |-> user_query[s]])]
    /\ run' = [run EXCEPT ![s].trace = Append(@, Event("append_user", user_query[s]))]
    /\ pc' = [pc EXCEPT ![s] = "render_user"]
    /\ UNCHANGED <<procVars, runs, keys, chat_engine, user_query, response,
                   index, hist>>

\* Variant of RenderUser placed after the chat call: the user message is
\* rendered only once the engine has answered.
RenderUser_Skipped(s) ==
    /\ pc[s] = "render_user"
    /\ run' = run
    /\ pc' = [pc EXCEPT ![s] = "chat"]
    /\ UNCHANGED <<procVars, runs, keys, chat_engine, messages, user_query,
                   response, index, hist>>

\* Lines 119-120.
RenderUser(s) ==
    /\ pc[s] = "render_user"
    /\ run' = [run EXCEPT ![s].trace = Append(@, Event("render_user", user_query[s]))]
    /\ pc' = [pc EXCEPT ![s] = "chat"]
    /\ UNCHANGED <<procVars, runs, keys, chat_engine, messages, user_query,
                   response, index, hist>>

\* Variant of ChatCall whose failure is handled: the error is displayed, the
\* user message is taken back and the run goes on to its end.
ChatCall_Handled(s) ==
    /\ pc[s] = "chat"
    /\ \/ \E r \in Responses :
          /\ response' = [response EXCEPT ![s] = r]
          /\ messages' = messages
          /\ run' = [run EXCEPT ![s].chatCalls = @ + 1, ![s].netCalls = @ + 1,
                                ![s].trace = Append(@, Event("chat", user_query[s]))]
          /\ hist' = [hist EXCEPT ![s].chatOn = Append(@, chat_engine[s].id)]
          /\ pc' = [pc EXCEPT ![s] = "render_response"]
       \/ /\ response' = response
          /\ messages' = [messages EXCEPT ![s] = SubSeq(@, 1, Len(@) - 1)]
          /\ run' = [run EXCEPT ![s].chatCalls = @ + 1, ![s].netCalls = @ + 1,
                                ![s].errors = Append(@, "chat failed"),
                                ![s].trace = Append(@, Event("chat", user_query[s]))]
          /\ hist' = [hist EXCEPT ![s].chatOn = Append(@, chat_engine[s].id),
                                  ![s].turns = SetLast(@, [q |-> user_query[s],
                                                           outcome |-> "failed", r |-> ""])]
          /\ pc' = [pc EXCEPT ![s] = "done"]
    /\ UNCHANGED <<procVars, runs, keys, chat_engine, user_query, index>>

\* Line 124: chat_engine.chat(user_query) returns a response or raises; the
\* exception has no handler and ends the run.
ChatCall(s) ==
    /\ pc[s] = "chat"
    /\ \/ \E r \in Responses :
          /\ response' = [response EXCEPT ![s] = r]
          /\ run' = [run EXCEPT ![s].chatCalls = @ + 1, ![s].netCalls = @ + 1,
                                ![s].trace = Append(@, Event("chat", user_query[s]))]
          /\ hist' = [hist EXCEPT ![s].chatOn = Append(@, chat_engine[s].id)]
          /\ pc' = [pc EXCEPT ![s] = "render_response"]
       \/ /\ response' = response
          /\ run' = [run EXCEPT ![s].chatCalls = @ + 1, ![s].netCalls = @ + 1,
                                ![s].exc = "ChatError",
                                ![s].trace = Append(@, Event("chat", user_query[s]))]
          /\ hist' = [hist EXCEPT ![s].chatOn = Append(@, chat_engine[s].id),
                                  ![s].turns = SetLast(@, [q |-> user_query[s],
                                                           outcome |-> "failed", r |-> ""])]
          /\ pc' = [pc EXCEPT ![s] = "crashed"]
    /\ UNCHANGED <<procVars, runs, keys, chat_engine, messages, user_query, index>>

\* Line 125.
RenderResponse(s) ==
    /\ pc[s] = "render_response"
    /\ run' = [run EXCEPT ![s].trace = Append(@, Event("render_response", response[s]))]
    /\ pc' = [pc EXCEPT ![s] = "append_assistant"]
    /\ UNCHANGED <<procVars, runs, keys, chat_engine, messages, user_query,
                   response, index, hist>>

\* Variant of AppendAssistant that does not save the response: the list is
\* left as it was.
AppendAssistant_Unsaved(s) ==
    /\ pc[s] = "append_assistant"
    /\ messages' = messages
    /\ run' = [run EXCEPT ![s].trace = Append(@, Event("append_assistant", response[s]))]
    /\ hist' = [hist EXCEPT ![s].turns = SetLast(@, [q |-> user_query[s],
                                                     outcome |-> "done", r |-> response[s]])]
    /\ pc' = [pc EXCEPT ![s] = "done"]
    /\ UNCHANGED <<procVars, runs, keys, chat_engine, user_query, response, index>>

\* Line 127: the last line of the script.
AppendAssistant(s) ==
    /\ pc[s] = "append_assistant"
    /\ messages' = [messages EXCEPT ![s] =
                      Append(@, [role |-> "assistant", content |-> response[s]])]
    /\ run' = [run EXCEPT ![s].trace = Append(@, Event("append_assistant", response[s]))]
    /\ hist' = [hist EXCEPT ![s].turns = SetLast(@, [q |-> user_query[s],
                                                     outcome |-> "done", r |-> response[s]])]
    /\ pc' = [pc EXCEPT ![s] = "done"]
    /\ UNCHANGED <<procVars, runs, keys, chat_engine, user_query, response, index>>

Next ==
    \E s \in Sessions :
        \/ \E q \in Queries \cup {NoQuery} : StartRun(s, q)
        \/ CheckKey(s)
        \/ ConfigureClients(s)
        \/ LoadIndexCall(s)
        \/ LoadIndexMiss(s)
        \/ LoadIndexBody(s)
        \/ InitChatEngine(s)
        \/ SeedMessages(s)
        \/ RenderHistory(s)
        \/ ChatInput(s)
        \/ AppendUser(s)
        \/ RenderUser(s)
        \/ ChatCall(s)
        \/ RenderResponse(s)
        \/ AppendAssistant(s)

Spec == Init /\ [][Next]_vars

\* ----------------------------------------------------------------- helpers
InTurn == {"append_user", "render_user", "chat", "render_response",
           "append_assistant"}

Last(seq) == seq[Len(seq)]

IsPrefix(a, b) == Len(a) <= Len(b) /\ a = SubSeq(b, 1, Len(a))

User(q) == [role |-> "user", content |-> q]
Assistant(r) == [role |-> "assistant", content |-> r]

\* Roles alternate assistant, user, assistant, ... from the first element.
Alternates(msgs) ==
    \A i \in 1..Len(msgs) :
        msgs[i].role = (IF i % 2 = 1 THEN "assistant" ELSE "user")

\* The messages the recorded turns account for: the user message of every
\* turn and the assistant message of every turn that completed.
RECURSIVE Transcript(_)
Transcript(turns) ==
    IF turns = <<>> THEN <<>>
    ELSE LET t == turns[1]
         IN  (IF t.outcome = "done" THEN <<User(t.q), Assistant(t.r)>>
              ELSE <<User(t.q)>>) \o Transcript(Tail(turns))

Failed(turns) == Cardinality({i \in 1..Len(turns) : turns[i].outcome = "failed"})

\* The steps of one submission, in the order of lines 118-127.
ExpectedTrace(q, r) ==
    <<Event("append_user", q), Event("render_user", q), Event("chat", q),
      Event("render_response", r), Event("append_assistant", r)>>

\* ------------------------------------------------------------------ claims

\* C1 as stated: whenever a session is at rest after N processed submissions
\* (failed chat calls included), its message list has length 1 + 2N and the
\* roles alternate from the seed.
C1_Original ==
    \A s \in Sessions :
        (pc[s] \in Terminal /\ "messages" \in keys[s]) =>
            /\ Len(messages[s]) = 1 + 2 * Len(hist[s].turns)
            /\ Alternates(messages[s])

\* C1 amended: at rest after N processed submissions of which F ended at a
\* failed chat call, the list is the seed followed, turn by turn, by the
\* turn's user message and (for a completed turn) its assistant message, so
\* its length is 1 + 2N - F; the roles alternate when F = 0.
C1_Amended ==
    \A s \in Sessions :
        (pc[s] \in Terminal /\ "messages" \in keys[s]) =>
            /\ messages[s] = <<SEED>> \o Transcript(hist[s].turns)
            /\ Len(messages[s]) = 1 + 2 * Len(hist[s].turns) - Failed(hist[s].turns)
            /\ Failed(hist[s].turns) = 0 => Alternates(messages[s])

C1_Witness ==
    \E s \in Sessions :
        /\ pc[s] \in Terminal
        /\ Len(hist[s].turns) = 3
        /\ Failed(hist[s].turns) = 1
        /\ Len(messages[s]) = 6

\* C2: every step leaves each session's message list a prefix of the new
\* one and never drops the list; an existing list starts with the seed
\* greeting, which occurs once; the seed is written only when the session
\* had no list.
C2_AppendOnly ==
    [][\A s \in Sessions :
          /\ IsPrefix(messages[s], messages'[s])
          /\ "messages" \in keys[s] => "messages" \in keys'[s]
          /\ "messages" \in keys'[s] =>
                /\ messages'[s][1] = SEED
                /\ \A i \in 2..Len(messages'[s]) : messages'[s][i] # SEED
          /\ "messages" \notin keys'[s] => messages'[s] = <<>>
          /\ ("messages" \in keys'[s] /\ messages[s] = <<>>) =>
                ("messages" \notin keys[s] /\ messages'[s] = <<SEED>>)]_vars

C2_Witness ==
    \E s \in Sessions :
        /\ pc[s] = "render_user"
        /\ Len(messages[s]) >= 4
        /\ run[s].shown = Len(messages[s]) - 1

\* C3: with no GOOGLE_API_KEY secret, a run that has passed the check of
\* line 22 is halted with exactly the one key error displayed, and has
\* constructed no client, called load_index never, created no chat engine
\* and sent no embedding or generation request.
C3_MissingKeyHalts ==
    \A s \in Sessions :
        ("GOOGLE_API_KEY" \notin secrets /\ pc[s] \notin {"idle", "key"}) =>
            /\ pc[s] = "halted"
            /\ run[s].errors = <<KEY_ERROR>>
            /\ run[s].ctorCalls = 0 /\ ~run[s].llm /\ ~run[s].embed
            /\ run[s].loadCalls = 0 /\ run[s].bodyExecs = 0
            /\ run[s].engines = 0 /\ "chat_engine" \notin keys[s]
            /\ run[s].chatCalls = 0 /\ run[s].netCalls = 0
            /\ stats.bodyExecs = 0 /\ stats.loads = 0 /\ stats.builds = 0

C3_Witness ==
    \E s \in Sessions :
        /\ "GOOGLE_API_KEY" \notin secrets
        /\ pc[s] = "halted"
        /\ runs >= 2

\* C4 as stated: a body execution that found ./storage absent has read the
\* menu file and the reviews directory, built an index over menu + review
\* documents, persisted it, and returned it; ./storage exists afterwards.
C4_RebuildClaim ==
    \A s \in Sessions :
        run[s].branch = "rebuild" =>
            /\ run[s].exc = "none"
            /\ stats.menuReads >= 1 /\ stats.reviewReads >= 1
            /\ stats.builds >= 1 /\ stats.persists >= 1
            /\ storage = [state |-> "valid",
                          ndocs |-> files.menuRows + files.reviewFiles]
            /\ index[s].origin = "built"
            /\ index[s].ndocs = files.menuRows + files.reviewFiles
            /\ cache = index[s]

\* C5 as stated: the body of load_index executes at most once per process.
C5_Original == stats.bodyExecs <= 1

\* C5 amended: the body of load_index returns at most once per process and
\* never runs in two sessions at once; once it has returned, the cached
\* instance never changes, no later step executes the body, reads the
\* sources, builds or persists, and every call returns that instance.  (An
\* execution that raises caches nothing.)
C5_Amended ==
    [][/\ stats'.bodyReturns <= 1
       /\ Cardinality({s \in Sessions : pc'[s] = "body"}) <= 1
       /\ cache # NoIndex =>
             /\ cache' = cache
             /\ stats' = stats
             /\ storage' = storage
       /\ \A s \in Sessions :
             (index'[s] # index[s] /\ index'[s] # NoIndex) => index'[s] = cache'
      ]_vars

C5_Witness ==
    \E s, t \in Sessions :
        /\ s # t
        /\ index[s] = cache /\ index[t] = cache /\ cache # NoIndex
        /\ run[s].bodyExecs = 1
        /\ run[t].bodyExecs = 0 /\ run[t].loadCalls = 1
        /\ stats.bodyExecs = 1

C7_ClientFailureHalts ==
    \A s \in Sessions :
        run[s].caught # "none" =>
            /\ pc[s] = "halted"
            /\ run[s].errors = <<SETUP_ERROR \o run[s].caught>>
            /\ run[s].exc = "none"
            /\ run[s].ctorCalls <= 2 /\ ~run[s].embed
            /\ run[s].loadCalls = 0 /\ run[s].bodyExecs = 0
            /\ run[s].engines = 0
            /\ ~run[s].inputShown /\ run[s].trace = <<>>
            /\ run[s].chatCalls = 0

C7_Witness ==
    \E s \in Sessions :
        /\ run[s].caught = "bad key"
        /\ run[s].llm
        /\ user_query[s] # NoQuery
        /\ pc[s] = "halted"

\* C8: a session creates at most one chat engine; every run that is past
\* line 101 has it in session_state, the engine stored is the one created,
\* and every chat call of the session was made on it.
C8_EngineOnce ==
    \A s \in Sessions :
        /\ Len(hist[s].engines) <= 1
        /\ "chat_engine" \in keys[s] <=> Len(hist[s].engines) = 1
        /\ "chat_engine" \in keys[s] => chat_engine[s].id = hist[s].engines[1]
        /\ "chat_engine" \notin keys[s] => chat_engine[s] = NoEngine
        /\ pc[s] \in InTurn \cup {"seed", "history", "input", "done"} =>
              "chat_engine" \in keys[s]
        /\ \A i \in 1..Len(hist[s].chatOn) : hist[s].chatOn[i] = hist[s].engines[1]

C8_Witness ==
    \E s \in Sessions :
        /\ Len(hist[s].chatOn) >= 2
        /\ run[s].engines = 0
        /\ pc[s] = "done"

\* Order of one submission: the steps done so far are the first steps of
\* lines 118-127 with the query and the response unmodified; the chat call
\* finds the user message last in the list; the message appended last is
\* the response rendered.
C9_Order ==
    \A s \in Sessions :
        /\ IsPrefix(run[s].trace, ExpectedTrace(user_query[s], response[s]))
        /\ pc[s] = "append_user" => Len(run[s].trace) = 0
        /\ pc[s] = "render_user" => Len(run[s].trace) = 1
        /\ pc[s] = "chat" =>
              /\ Len(run[s].trace) = 2
              /\ Last(messages[s]) = User(user_query[s])
        /\ pc[s] = "render_response" => Len(run[s].trace) = 3
        /\ pc[s] = "append_assistant" => Len(run[s].trace) = 4
        /\ Len(run[s].trace) = 5 =>
              /\ pc[s] = "done"
              /\ Last(messages[s]) = Assistant(response[s])
              /\ messages[s][Len(messages[s]) - 1] = User(user_query[s])
        /\ Len(run[s].trace) > 0 => user_query[s] # NoQuery
        /\ Cardinality({i \in 1..Len(hist[s].turns) :
                            hist[s].turns[i].outcome = "open"}) <= 1

\* C9 as stated: the order above, and a submission starts only when the
\* assistant message of the previous one has been appended.
C9_Original ==
    /\ C9_Order
    /\ \A s \in Sessions :
          pc[s] = "append_user" => Last(messages[s]).role = "assistant"

\* C9 amended: the order above, and a submission starts only when the
\* previous one has ended: its assistant message has been appended, or its
\* chat call raised.
C9_Amended ==
    /\ C9_Order
    /\ \A s \in Sessions :
          /\ \A i \in 1..(Len(hist[s].turns) - 1) :
                hist[s].turns[i].outcome \in {"done", "failed"}
          /\ pc[s] = "append_user" =>
                \/ Last(messages[s]).role = "assistant"
                \/ /\ Len(hist[s].turns) >= 2
                   /\ hist[s].turns[Len(hist[s].turns) - 1].outcome = "failed"
                   /\ Last(messages[s]) =
                         User(hist[s].turns[Len(hist[s].turns) - 1].q)

C9_Witness ==
    \E s \in Sessions :
        /\ Len(run[s].trace) = 5
        /\ Len(hist[s].turns) = 2
        /\ hist[s].turns[1].outcome = "done"
        /\ user_query[s] # hist[s].turns[1].q

\* Position in the message list of the user message of turn i.
UserPos(turns, i) == 1 + Len(Transcript(SubSeq(turns, 1, i - 1))) + 1

\* C10: st.error is displayed only by the two startup checks, which halt
\* the run; any other failure is an uncaught exception that ends the run
\* with nothing displayed.  A run whose chat call raised called chat once,
\* appended no assistant message and leaves the user message last in the
\* list; the user message of every failed turn stays in its place.
C10_ChatFailureUncaught ==
    \A s \in Sessions :
        /\ run[s].exc # "none" =>
              /\ pc[s] = "crashed" /\ run[s].errors = <<>> /\ run[s].caught = "none"
        /\ run[s].errors # <<>> =>
              /\ pc[s] = "halted"
              /\ run[s].errors \in {<<KEY_ERROR>>, <<SETUP_ERROR \o run[s].caught>>}
        /\ pc[s] = "crashed" <=> run[s].exc # "none"
        /\ run[s].exc = "ChatError" =>
              /\ run[s].chatCalls = 1
              /\ run[s].trace = SubSeq(ExpectedTrace(user_query[s], ""), 1, 3)
              /\ Last(messages[s]) = User(user_query[s])
              /\ Last(hist[s].turns).outcome = "failed"
        /\ \A i \in 1..Len(hist[s].turns) :
              hist[s].turns[i].outcome = "failed" =>
                  /\ UserPos(hist[s].turns, i) <= Len(messages[s])
                  /\ messages[s][UserPos(hist[s].turns, i)] = User(hist[s].turns[i].q)
                  /\ UserPos(hist[s].turns, i) < Len(messages[s]) =>
                        messages[s][UserPos(hist[s].turns, i) + 1].role = "user"

C10_Witness ==
    \E s \in Sessions :
        /\ Len(hist[s].turns) = 2
        /\ hist[s].turns[1].outcome = "failed"
        /\ hist[s].turns[2].outcome = "done"
        /\ pc[s] = "done"
====
